---- MODULE Spec2Model ----
(***************************************************************************)
(* A model of go-ds-sql: the Datastore facade and its transactional batch  *)
(* over the statements of the postgres query provider (sql_kv_ds.go).      *)
(*                                                                         *)
(* The table is `store`.  A batch owns at most one sql.Tx; the rows a      *)
(* transaction has written and not yet committed are its writes tw[b],     *)
(* which only its own statements see (READ COMMITTED, the isolation level  *)
(* db.Begin() gets from postgres).  The put statement is                   *)
(*   INSERT ... SELECT $1,$2 WHERE NOT EXISTS (SELECT key ... WHERE key=$1)*)
(* on a table whose key column is UNIQUE: the subquery is evaluated on the *)
(* statement's snapshot and the insertion then meets the unique index, so  *)
(* a put that finds no row is two steps (BatchPut then BatchPutInsert,     *)
(* StorePut then StorePutInsert) and other callers may run in between.  An *)
(* insertion or a delete waits while another open transaction holds an     *)
(* uncommitted write of the same key.                                      *)
(*                                                                         *)
(* A backend call may fail (db.Begin, Exec, Commit return an error) or     *)
(* panic (Exec); a statement that failed or panicked has written nothing.  *)
(*                                                                         *)
(* The specifications share the actions:                                   *)
(*   Spec       one batch at a time (a batch name is taken again once its  *)
(*              batch is finished), with failures and panics;              *)
(*   SpecStore  the store-level operations of two concurrent callers, with *)
(*              failures;                                                  *)
(*   SpecConc   two batches on one key, running concurrently, with         *)
(*              failures and panics;                                       *)
(*   SpecRead   one batch and a caller of the store-level reads;           *)
(*   SpecQuery  GetSize and Query of one caller over any table of three    *)
(*              keys;                                                      *)
(*   SpecCompose  QueryWithParams on every descriptor.                     *)
(***************************************************************************)
EXTENDS Integers, Sequences, FiniteSets, TLC

\* ------------------------------------------------------------------ bounds
\* backend failures and panics injected in one behaviour
MaxFaults == 1

Keys == {"a/1", "b/1"}
Vals == {"v1", "v2"}
Batches == {"b1", "b2"}
Callers == {"c1", "c2"}

\* a nil []byte, a missing row, a key the transaction has not written
NilVal == "nilval"
None == "none"
Untouched == "untouched"
Deleted == "del"

\* error values
OK == "nil"
ErrInvalidType == "ErrInvalidType"
ErrNotFound == "ErrNotFound"
ErrBackend == "ErrBackend"
ErrTxDone == "ErrTxDone"
ErrUnique == "ErrUnique"
Errors == {ErrInvalidType, ErrNotFound, ErrBackend, ErrTxDone, ErrUnique}

\* the value a panicking driver call raises, and "not panicking"
PanicVal == "boom"
NoPanic == "nopanic"
\* the result recorded for an operation that panicked instead of returning
Panicked == "panicked"

Faults == {"none", "begin", "exec", "panic", "commit", "scan"}

VARIABLES
    store,      \* the table: key -> data, None when there is no row
    created,    \* created[b]: Datastore.Batch() returned batch b
    btxn,       \* b.txn: "nil" or "tx"
    txState,    \* the sql.Tx of b: "none", "open", "committed", "rolledback"
    tw,         \* the uncommitted writes of b's transaction
    bpc,        \* "idle", or "putIns": b's put statement is at its insertion
    bpend,      \* the put in flight on b: key, value, backend calls so far
    last,       \* the last operation invoked on b: what it returned, the backend
                \* calls it made, b.txn and its state before, the keys it made
                \* visible, the table before it and at its return
    failed,     \* some Put or Delete of b has returned an error
    eff,        \* per key, what the operations of b that returned nil ask for
    dels,       \* the keys a Delete of b that returned nil has named
    spc,        \* "idle", or "putIns" for a store-level put in flight
    spend,      \* the store-level put in flight: key, value
    sres,       \* the last store-level operation of caller c and its result
    obs,        \* what the last GetSize or Query of caller c gave: the size, the
                \* descriptor, the statement text, the entries, the cursor
                \* (sql.Rows) and how many times it was released
    faults      \* backend failures injected so far

vars == <<store, created, btxn, txState, tw, bpc, bpend, last, failed, eff, dels,
          spc, spend, sres, obs, faults>>

NoPend == [key |-> None, val |-> None, calls |-> {}, txn |-> "nil", st |-> "none",
           was |-> None]
NoLast == [op |-> "none", key |-> None, val |-> None, res |-> OK, raised |-> NoPanic,
           calls |-> {}, txn |-> "nil", st |-> "none", applied |-> {},
           pre |-> [k \in Keys |-> None], now |-> [k \in Keys |-> None]]
NoSPend == [key |-> None, val |-> None, was |-> None]
NoRes == [op |-> "none", key |-> None, val |-> None, res |-> OK, out |-> None,
          calls |-> {}, rows |-> 0]
EmptyTw == [k \in Keys |-> Untouched]
NoQuery == [prefix |-> "", limit |-> 0, offset |-> 0]
NoObs == [size |-> 0, q |-> NoQuery, text |-> "", entries |-> <<>>, cursor |-> "none",
          closes |-> 0]

\* a Datastore and its callers before any operation
Fresh ==
    /\ created = [b \in Batches |-> FALSE]
    /\ btxn = [b \in Batches |-> "nil"]
    /\ txState = [b \in Batches |-> "none"]
    /\ tw = [b \in Batches |-> EmptyTw]
    /\ bpc = [b \in Batches |-> "idle"]
    /\ bpend = [b \in Batches |-> NoPend]
    /\ last = [b \in Batches |-> NoLast]
    /\ failed = [b \in Batches |-> FALSE]
    /\ eff = [b \in Batches |-> EmptyTw]
    /\ dels = [b \in Batches |-> {}]
    /\ spc = [c \in Callers |-> "idle"]
    /\ spend = [c \in Callers |-> NoSPend]
    /\ sres = [c \in Callers |-> NoRes]
    /\ obs = [c \in Callers |-> NoObs]
    /\ faults = 0

\* an empty table
Init ==
    /\ store = [k \in Keys |-> None]
    /\ Fresh

\* --------------------------------------------------------------- backend
\* sql.Tx: what a statement of b's transaction sees of key k, its own
\* uncommitted writes over the committed table
TxView(b, k) ==
    IF tw[b][k] = Untouched THEN store[k]
    ELSE IF tw[b][k] = Deleted THEN None
    ELSE tw[b][k]

\* another open transaction holds an uncommitted write of key k: a row it
\* inserted (the unique index of CREATE TABLE ... key TEXT NOT NULL UNIQUE
\* makes an insertion of k wait for it) or the lock of the row it deleted (a
\* delete or an insertion of k waits for it)
LockedByOther(me, k) ==
    \E t \in Batches \ {me} : txState[t] = "open" /\ tw[t][k] # Untouched

\* mutant: a plain INSERT, without the WHERE NOT EXISTS guard
PutSelectsRowAlways(present) == TRUE

\* the put statement selects a row to insert only WHERE NOT EXISTS a row of
\* the key in the statement's snapshot
PutSelectsRow(present) == ~present

\* mutant: a delete statement that removes nothing
DeleteFromNothing(b, k) == tw[b][k]

\* the delete statement: the row of k as the transaction sees it is removed
DeleteFrom(b, k) ==
    IF TxView(b, k) = None THEN tw[b][k]
    ELSE IF store[k] # None THEN Deleted
    ELSE Untouched

\* mutant: a commit that makes only the writes of one key the table's
ApplyWritesOneKey(s, w) ==
    [k \in Keys |-> IF w[k] = Untouched \/ k # "a/1" THEN s[k]
                    ELSE IF w[k] = Deleted THEN None
                    ELSE w[k]]

\* Tx.Commit of an open transaction makes its writes the table's
ApplyWrites(s, w) ==
    [k \in Keys |-> IF w[k] = Untouched THEN s[k]
                    ELSE IF w[k] = Deleted THEN None
                    ELSE w[k]]

\* Tx.Rollback: ends an open transaction, ErrTxDone (ignored) on a finished one
RollbackTx(st) == IF st = "open" THEN "rolledback" ELSE st

\* ----------------------------------------------------- statements as text
\* strings.HasPrefix
HasPrefix(s, p) == Len(s) >= Len(p) /\ SubSeq(s, 1, Len(p)) = p

\* s without its first n characters
Drop(s, n) == SubSeq(s, n + 1, Len(s))

Digits == <<"0", "1", "2", "3", "4", "5", "6", "7", "8", "9">>

\* fmt.Sprintf("%d", n) of a non-negative n
RECURSIVE Itoa(_)
Itoa(n) == IF n < Len(Digits) THEN Digits[n + 1]
           ELSE Itoa(n \div Len(Digits)) \o Digits[(n % Len(Digits)) + 1]

IsDigit(c) == \E i \in 1..Len(Digits) : Digits[i] = c

\* the number of leading digits of s
RECURSIVE DigitSpan(_)
DigitSpan(s) == IF s # "" /\ IsDigit(SubSeq(s, 1, 1)) THEN 1 + DigitSpan(Tail(s)) ELSE 0

\* the integer a non-empty string of digits denotes
RECURSIVE Atoi(_)
Atoi(s) == IF s = "" THEN 0
           ELSE Len(Digits) * Atoi(SubSeq(s, 1, Len(s) - 1))
                + (CHOOSE d \in 0..(Len(Digits) - 1) : Digits[d + 1] = SubSeq(s, Len(s), Len(s)))

\* queries.Query, with the table "kv" of setDefaults
QueryAll == "SELECT key, data FROM kv"

\* queries.Prefix applied by fmt.Sprintf to q.Prefix: %s is the prefix as it
\* is, %% a percent sign
LikeHead == " WHERE key LIKE '"
LikeTail == "' ORDER BY key"
PrefixClause(prefix) == LikeHead \o prefix \o "%" \o LikeTail

\* queries.Limit and queries.Offset applied by fmt.Sprintf
LimitHead == " LIMIT "
OffsetHead == " OFFSET "
LimitClause(n) == LimitHead \o Itoa(n)
OffsetClause(n) == OffsetHead \o Itoa(n)

\* mutant: the offset clause appended before the limit clause
QueryWithParamsOffsetFirst(q) ==
    QueryAll
    \o (IF q.prefix # "" THEN PrefixClause(q.prefix) ELSE "")
    \o (IF q.offset # 0 THEN OffsetClause(q.offset) ELSE "")
    \o (IF q.limit # 0 THEN LimitClause(q.limit) ELSE "")

\* QueryWithParams: the statement text it hands to db.Query
QueryWithParams(q) ==
    LET q1 == IF q.prefix # "" THEN QueryAll \o PrefixClause(q.prefix) ELSE QueryAll
        q2 == IF q.limit # 0 THEN q1 \o LimitClause(q.limit) ELSE q1
    IN IF q.offset # 0 THEN q2 \o OffsetClause(q.offset) ELSE q2

\* ------------------------------------------- the backend's select statement
\* the position of the first character c of s, 0 when s has none
RECURSIVE IndexOf(_, _)
IndexOf(s, c) ==
    IF s = "" THEN 0
    ELSE IF SubSeq(s, 1, 1) = c THEN 1
    ELSE LET i == IndexOf(Tail(s), c) IN IF i = 0 THEN 0 ELSE i + 1

NoStatement == [ok |-> FALSE, like |-> FALSE, pattern |-> "", limited |-> FALSE,
                limit |-> 0, offset |-> 0]

\* the WHERE key LIKE '...' ORDER BY key part: the string literal ends at the
\* first quote after its opening quote
ParseWhere(r) ==
    IF ~HasPrefix(r, LikeHead) THEN [ok |-> TRUE, like |-> FALSE, pattern |-> "", rest |-> r]
    ELSE LET body == Drop(r, Len(LikeHead))
             i == IndexOf(body, "'")
         IN IF i = 0 \/ ~HasPrefix(Drop(body, i - 1), LikeTail)
            THEN [ok |-> FALSE, like |-> FALSE, pattern |-> "", rest |-> ""]
            ELSE [ok |-> TRUE, like |-> TRUE, pattern |-> SubSeq(body, 1, i - 1),
                  rest |-> Drop(body, i - 1 + Len(LikeTail))]

\* a LIMIT n or OFFSET n part
ParseCount(r, head) ==
    IF ~HasPrefix(r, head) THEN [ok |-> TRUE, present |-> FALSE, n |-> 0, rest |-> r]
    ELSE LET body == Drop(r, Len(head))
             d == DigitSpan(body)
         IN IF d = 0 THEN [ok |-> FALSE, present |-> FALSE, n |-> 0, rest |-> ""]
            ELSE [ok |-> TRUE, present |-> TRUE, n |-> Atoi(SubSeq(body, 1, d)),
                  rest |-> Drop(body, d)]

\* the backend parsing the text of a select statement; a text that is not
\* SELECT key, data FROM kv [WHERE key LIKE '..' ORDER BY key] with LIMIT n
\* and OFFSET n after it, each once at most and in either order, is a syntax
\* error
ParseStatement(text) ==
    IF ~HasPrefix(text, QueryAll) THEN NoStatement
    ELSE LET w == ParseWhere(Drop(text, Len(QueryAll)))
             l == ParseCount(w.rest, LimitHead)
             o == ParseCount(l.rest, OffsetHead)
             m == IF l.present THEN l ELSE ParseCount(o.rest, LimitHead)
             rest == IF l.present THEN o.rest ELSE m.rest
         IN IF w.ok /\ l.ok /\ o.ok /\ m.ok /\ rest = ""
            THEN [ok |-> TRUE, like |-> w.like, pattern |-> w.pattern,
                  limited |-> m.present, limit |-> m.n, offset |-> o.n]
            ELSE NoStatement

\* key LIKE pattern: % matches any string, _ any one character, a backslash
\* makes the character after it match itself (a pattern ending in a lone
\* backslash, which no statement of the code has, matches nothing)
RECURSIVE Like(_, _)
Like(s, pat) ==
    IF pat = "" THEN s = ""
    ELSE LET c == SubSeq(pat, 1, 1) IN
         IF c = "%" THEN Like(s, Tail(pat)) \/ (s # "" /\ Like(Tail(s), pat))
         ELSE IF c = "_" THEN s # "" /\ Like(Tail(s), Tail(pat))
         ELSE IF c = "\\"
         THEN /\ Len(pat) > 1 /\ s # ""
              /\ SubSeq(s, 1, 1) = SubSeq(pat, 2, 2)
              /\ Like(Tail(s), Tail(Tail(pat)))
         ELSE s # "" /\ SubSeq(s, 1, 1) = c /\ Like(Tail(s), Tail(pat))

\* the byte of a character of the keys
Byte(c) ==
    CASE c = "%" -> 37 [] c = "'" -> 39 [] c = "/" -> 47 [] c = "1" -> 49
      [] c = "2" -> 50 [] c = "\\" -> 92 [] c = "_" -> 95 [] c = "a" -> 97
      [] c = "b" -> 98

\* ORDER BY key: keys compared byte by byte
RECURSIVE KeyLess(_, _)
KeyLess(a, b) ==
    IF b = "" THEN FALSE
    ELSE IF a = "" THEN TRUE
    ELSE IF SubSeq(a, 1, 1) = SubSeq(b, 1, 1) THEN KeyLess(Tail(a), Tail(b))
    ELSE Byte(SubSeq(a, 1, 1)) < Byte(SubSeq(b, 1, 1))

\* the sequences that hold each element of S once
Orders(S) ==
    {f \in [1..Cardinality(S) -> S] : \A i, j \in 1..Cardinality(S) : i # j => f[i] # f[j]}

Sorted(S) == CHOOSE f \in Orders(S) : \A i, j \in 1..Cardinality(S) : i < j => KeyLess(f[i], f[j])

\* mutant: the limit taken before the offset is skipped
LimitOffsetLimitFirst(rows, limited, limit, offset) ==
    LET cut == IF limited /\ limit < Len(rows) THEN SubSeq(rows, 1, limit) ELSE rows
    IN Drop(cut, offset)

\* OFFSET then LIMIT: the rows after the first offset ones, limit of them at most
LimitOffset(rows, limited, limit, offset) ==
    LET rest == Drop(rows, offset)
    IN IF limited /\ limit < Len(rest) THEN SubSeq(rest, 1, limit) ELSE rest

\* the row sequences a select statement may return from a table: the rows the
\* WHERE clause keeps, in key order under ORDER BY and in any order without
\* it, cut by OFFSET and LIMIT
Select(st, table) ==
    LET keys == {k \in DOMAIN table : table[k] # None /\ (st.like => Like(k, st.pattern))}
        ordered == IF st.like THEN {Sorted(keys)} ELSE Orders(keys)
    IN {LimitOffset(r, st.limited, st.limit, st.offset) : r \in ordered}

\* SELECT octet_length(data)
\* mutant: a size that is not the data's
octet_lengthZero(data) == 0
octet_length(data) == Len(data)

\* ----------------------------------------------------------------- batch
\* recover() inside rollbackTxn: rollbackTxn is called BY the deferred
\* closure of Put/Delete, so recover is not called directly by a deferred
\* function and returns nil even while the goroutine panics
recover(panicking) == NoPanic

\* mutant: a rollbackTxn that rolls back whatever the operation returned
rollbackTxnAlways(txn, err, panicking) ==
    [rollback |-> txn # "nil", raised |-> panicking]

\* batch.rollbackTxn, run by the deferred closure with b.txn as it is then
rollbackTxn(txn, err, panicking) ==
    IF txn = "nil" THEN [rollback |-> FALSE, raised |-> panicking]
    ELSE LET r == recover(panicking) IN
         [rollback |-> (err # OK) \/ (r # NoPanic),
          raised |-> IF r # NoPanic THEN r ELSE panicking]

\* mutant: GetTransaction without its b.txn != nil return, a Begin on every call
GetTransactionAlwaysBegins(txn, fault) ==
    IF fault = "begin"
    THEN [txn |-> "nil", err |-> ErrBackend, calls |-> {"begin"}, begun |-> FALSE]
    ELSE [txn |-> "tx", err |-> OK, calls |-> {"begin"}, begun |-> TRUE]

\* batch.GetTransaction: the transaction b holds, or a new one from db.Begin
GetTransaction(txn, fault) ==
    IF txn # "nil"
    THEN [txn |-> txn, err |-> OK, calls |-> {}, begun |-> FALSE]
    ELSE IF fault = "begin"
    THEN [txn |-> "nil", err |-> ErrBackend, calls |-> {"begin"}, begun |-> FALSE]
    ELSE [txn |-> "tx", err |-> OK, calls |-> {"begin"}, begun |-> TRUE]

\* mutant: Put without its val == nil check
InvalidValueNever(val) == FALSE

\* val == nil
InvalidValue(val) == val = NilVal

\* mutant: Commit without its b.txn == nil return
CommitIsNoopNever(txn) == FALSE

\* b.txn == nil in Commit
CommitIsNoop(txn) == txn = "nil"

\* what the operations that returned nil ask for: the value of the first Put
\* of a key that was absent (or deleted earlier in the batch), Deleted after a
\* Delete; was is the row the put statement saw
Asked(e, op, k, v, was) ==
    IF op = "Delete" THEN [e EXCEPT ![k] = Deleted]
    ELSE IF e[k] = Deleted \/ (e[k] = Untouched /\ was = None) THEN [e EXCEPT ![k] = v]
    ELSE e

\* the exit of Put/Delete: the deferred rollbackTxn, then the result.  txn and
\* st are b.txn and its state as the body left them, w the transaction's
\* writes, calls the backend calls of the body
BatchExit(b, op, k, v, txn, st, w, err, panicking, calls) ==
    LET rb == rollbackTxn(txn, err, panicking)
        res == IF rb.raised # NoPanic THEN Panicked ELSE err
        idle == bpc[b] = "idle"
    IN /\ btxn' = [btxn EXCEPT ![b] = txn]
       /\ txState' = [txState EXCEPT ![b] = IF rb.rollback THEN RollbackTx(st) ELSE st]
       /\ tw' = [tw EXCEPT ![b] = IF rb.rollback THEN EmptyTw ELSE w]
       /\ last' = [last EXCEPT ![b] =
              [op |-> op, key |-> k, val |-> v, res |-> res, raised |-> rb.raised,
               calls |-> calls \cup (IF rb.rollback THEN {"rollback"} ELSE {}),
               txn |-> IF idle THEN btxn[b] ELSE bpend[b].txn,
               st |-> IF idle THEN txState[b] ELSE bpend[b].st,
               applied |-> {}, pre |-> store, now |-> store']]
       /\ failed' = [failed EXCEPT ![b] = @ \/ res \in Errors]
       /\ eff' = [eff EXCEPT ![b] =
              IF res = OK
              THEN Asked(@, op, k, v, IF idle THEN TxView(b, k) ELSE bpend[b].was)
              ELSE @]
       /\ dels' = [dels EXCEPT ![b] = IF res = OK /\ op = "Delete" THEN @ \cup {k} ELSE @]
       /\ bpc' = [bpc EXCEPT ![b] = "idle"]
       /\ bpend' = [bpend EXCEPT ![b] = NoPend]

CanInvoke(b) == created[b] /\ bpc[b] = "idle"

Inject(fault) ==
    /\ fault # "none" => faults < MaxFaults
    /\ faults' = IF fault = "none" THEN faults ELSE faults + 1

\* Datastore.Batch: a new batch, txn nil.  The model holds one batch object per
\* name; a name is taken again once its batch holds no open transaction
Batch(b) ==
    /\ bpc[b] = "idle"
    /\ txState[b] # "open"
    /\ created[b] => last[b].op # "none"
    /\ created' = [created EXCEPT ![b] = TRUE]
    /\ btxn' = [btxn EXCEPT ![b] = "nil"]
    /\ txState' = [txState EXCEPT ![b] = "none"]
    /\ last' = [last EXCEPT ![b] = NoLast]
    /\ failed' = [failed EXCEPT ![b] = FALSE]
    /\ eff' = [eff EXCEPT ![b] = EmptyTw]
    /\ dels' = [dels EXCEPT ![b] = {}]
    /\ UNCHANGED <<store, tw, bpc, bpend, spc, spend, sres, obs, faults>>

\* batch.Put, up to the insertion of the put statement
BatchPut(b, k, v, fault) ==
    /\ CanInvoke(b)
    /\ Inject(fault)
    /\ UNCHANGED <<store, created, spc, spend, sres, obs>>
    /\ IF InvalidValue(v)
       THEN /\ fault = "none"
            /\ BatchExit(b, "Put", k, v, btxn[b], txState[b], tw[b],
                         ErrInvalidType, NoPanic, {})
       ELSE LET g == GetTransaction(btxn[b], fault)
                st == IF g.begun THEN "open" ELSE txState[b]
                calls == g.calls \cup {"exec"}
            IN IF g.err # OK
               THEN BatchExit(b, "Put", k, v, g.txn, st, tw[b], g.err, NoPanic, g.calls)
               ELSE IF st # "open"
               THEN /\ fault = "none"
                    /\ BatchExit(b, "Put", k, v, g.txn, st, tw[b], ErrTxDone, NoPanic, calls)
               ELSE IF fault = "exec"
               THEN BatchExit(b, "Put", k, v, g.txn, st, tw[b], ErrBackend, NoPanic, calls)
               ELSE IF fault = "panic"
               THEN BatchExit(b, "Put", k, v, g.txn, st, tw[b], OK, PanicVal, calls)
               ELSE /\ fault = "none"
                    /\ IF PutSelectsRow(TxView(b, k) # None)
                       THEN /\ btxn' = [btxn EXCEPT ![b] = g.txn]
                            /\ txState' = [txState EXCEPT ![b] = st]
                            /\ bpc' = [bpc EXCEPT ![b] = "putIns"]
                            /\ bpend' = [bpend EXCEPT ![b] =
                                   [key |-> k, val |-> v, calls |-> calls,
                                    txn |-> btxn[b], st |-> txState[b],
                                    was |-> TxView(b, k)]]
                            /\ UNCHANGED <<tw, last, failed, eff, dels>>
                       ELSE BatchExit(b, "Put", k, v, g.txn, st, tw[b], OK, NoPanic, calls)

\* the insertion of b's put statement, and the return of batch.Put
BatchPutInsert(b) ==
    LET k == bpend[b].key
        v == bpend[b].val
    IN /\ bpc[b] = "putIns"
       /\ ~LockedByOther(b, k)
       /\ UNCHANGED <<store, created, spc, spend, sres, obs, faults>>
       /\ IF store[k] # None /\ tw[b][k] # Deleted
          THEN BatchExit(b, "Put", k, v, btxn[b], txState[b], tw[b],
                         ErrUnique, NoPanic, bpend[b].calls)
          ELSE BatchExit(b, "Put", k, v, btxn[b], txState[b], [tw[b] EXCEPT ![k] = v],
                         OK, NoPanic, bpend[b].calls)

\* batch.Delete
BatchDelete(b, k, fault) ==
    /\ CanInvoke(b)
    /\ Inject(fault)
    /\ UNCHANGED <<store, created, spc, spend, sres, obs>>
    /\ LET g == GetTransaction(btxn[b], fault)
           st == IF g.begun THEN "open" ELSE txState[b]
           calls == g.calls \cup {"exec"}
       IN IF g.err # OK
          THEN BatchExit(b, "Delete", k, None, g.txn, st, tw[b], g.err, NoPanic, g.calls)
          ELSE IF st # "open"
          THEN /\ fault = "none"
               /\ BatchExit(b, "Delete", k, None, g.txn, st, tw[b], ErrTxDone, NoPanic, calls)
          ELSE IF fault = "exec"
          THEN BatchExit(b, "Delete", k, None, g.txn, st, tw[b], ErrBackend, NoPanic, calls)
          ELSE IF fault = "panic"
          THEN BatchExit(b, "Delete", k, None, g.txn, st, tw[b], OK, PanicVal, calls)
          ELSE /\ fault = "none"
               /\ (tw[b][k] = Untouched /\ store[k] # None) => ~LockedByOther(b, k)
               /\ BatchExit(b, "Delete", k, None, g.txn, st,
                            [tw[b] EXCEPT ![k] = DeleteFrom(b, k)], OK, NoPanic, calls)

\* batch.Commit
BatchCommit(b, fault) ==
    /\ CanInvoke(b)
    /\ Inject(fault)
    /\ UNCHANGED <<created, btxn, bpc, bpend, failed, eff, dels, spc, spend, sres, obs>>
    /\ LET rec(res, calls, applied, now) ==
               [op |-> "Commit", key |-> None, val |-> None, res |-> res,
                raised |-> NoPanic, calls |-> calls, txn |-> btxn[b],
                st |-> txState[b], applied |-> applied, pre |-> store, now |-> now]
       IN IF CommitIsNoop(btxn[b])
          THEN /\ fault = "none"
               /\ last' = [last EXCEPT ![b] = rec(OK, {}, {}, store)]
               /\ UNCHANGED <<store, txState, tw>>
          ELSE IF txState[b] # "open"
          THEN /\ fault = "none"
               /\ last' = [last EXCEPT ![b] =
                      rec(ErrTxDone, {"commit", "rollback"}, {}, store)]
               /\ UNCHANGED <<store, txState, tw>>
          ELSE IF fault = "commit"
          THEN /\ last' = [last EXCEPT ![b] =
                      rec(ErrBackend, {"commit", "rollback"}, {}, store)]
               /\ txState' = [txState EXCEPT ![b] = "rolledback"]
               /\ tw' = [tw EXCEPT ![b] = EmptyTw]
               /\ UNCHANGED store
          ELSE /\ fault = "none"
               /\ last' = [last EXCEPT ![b] =
                      rec(OK, {"commit"}, {k \in Keys : tw[b][k] # Untouched},
                          ApplyWrites(store, tw[b]))]
               /\ store' = ApplyWrites(store, tw[b])
               /\ txState' = [txState EXCEPT ![b] = "committed"]
               /\ tw' = [tw EXCEPT ![b] = EmptyTw]

\* ----------------------------------------------------------------- store
\* mutant: Delete without its rows == 0 check
DeleteResultAlwaysNil(rows) == OK

\* rows == 0 in Datastore.Delete
DeleteResult(rows) == IF rows = 0 THEN ErrNotFound ELSE OK

\* the return of a store-level operation: its error, its output, the backend
\* calls it made and the rows its statement affected
Return(c, op, k, v, res, out, calls, rows) ==
    /\ sres' = [sres EXCEPT ![c] =
           [op |-> op, key |-> k, val |-> v, res |-> res, out |-> out,
            calls |-> calls, rows |-> rows]]
    /\ spc' = [spc EXCEPT ![c] = "idle"]
    /\ spend' = [spend EXCEPT ![c] = NoSPend]

BatchVars == <<created, btxn, txState, tw, bpc, bpend, last, failed, eff, dels>>

\* Datastore.Put, up to the insertion of the put statement
StorePut(c, k, v, fault) ==
    /\ spc[c] = "idle"
    /\ Inject(fault)
    /\ fault \in {"none", "exec"}
    /\ UNCHANGED BatchVars
    /\ UNCHANGED obs
    /\ UNCHANGED store
    /\ IF InvalidValue(v)
       THEN /\ fault = "none"
            /\ Return(c, "Put", k, v, ErrInvalidType, None, {}, 0)
       ELSE IF fault = "exec"
       THEN Return(c, "Put", k, v, ErrBackend, None, {"exec"}, 0)
       ELSE IF PutSelectsRow(store[k] # None)
       THEN /\ spc' = [spc EXCEPT ![c] = "putIns"]
            /\ spend' = [spend EXCEPT ![c] = [key |-> k, val |-> v, was |-> store[k]]]
            /\ UNCHANGED sres
       ELSE Return(c, "Put", k, v, OK, None, {"exec"}, 0)

\* the insertion of a store-level put statement, and the return of Datastore.Put
StorePutInsert(c) ==
    LET k == spend[c].key
        v == spend[c].val
    IN /\ spc[c] = "putIns"
       /\ ~LockedByOther(c, k)
       /\ UNCHANGED BatchVars
       /\ UNCHANGED obs
       /\ UNCHANGED faults
       /\ IF store[k] # None
          THEN /\ Return(c, "Put", k, v, ErrUnique, None, {"exec"}, 0)
               /\ UNCHANGED store
          ELSE /\ Return(c, "Put", k, v, OK, None, {"exec"}, 1)
               /\ store' = [store EXCEPT ![k] = v]

\* Datastore.Get
StoreGet(c, k, fault) ==
    /\ spc[c] = "idle"
    /\ Inject(fault)
    /\ fault \in {"none", "exec"}
    /\ UNCHANGED BatchVars
    /\ UNCHANGED obs
    /\ UNCHANGED store
    /\ IF fault = "exec"
       THEN Return(c, "Get", k, None, ErrBackend, None, {"exec"}, 0)
       ELSE IF store[k] = None
       THEN Return(c, "Get", k, None, ErrNotFound, None, {"exec"}, 0)
       ELSE Return(c, "Get", k, None, OK, store[k], {"exec"}, 1)

\* Datastore.Has: SELECT exists(...) always yields one row
StoreHas(c, k, fault) ==
    /\ spc[c] = "idle"
    /\ Inject(fault)
    /\ fault \in {"none", "exec"}
    /\ UNCHANGED BatchVars
    /\ UNCHANGED obs
    /\ UNCHANGED store
    /\ IF fault = "exec"
       THEN Return(c, "Has", k, None, ErrBackend, "false", {"exec"}, 0)
       ELSE Return(c, "Has", k, None, OK, IF store[k] # None THEN "true" ELSE "false",
                   {"exec"}, 1)

\* Datastore.Delete
StoreDelete(c, k, fault) ==
    /\ spc[c] = "idle"
    /\ Inject(fault)
    /\ fault \in {"none", "exec"}
    /\ UNCHANGED BatchVars
    /\ UNCHANGED obs
    /\ IF fault = "exec"
       THEN /\ Return(c, "Delete", k, None, ErrBackend, None, {"exec"}, 0)
            /\ UNCHANGED store
       ELSE /\ store[k] # None => ~LockedByOther(c, k)
            /\ LET rows == IF store[k] # None THEN 1 ELSE 0
               IN Return(c, "Delete", k, None, DeleteResult(rows), None, {"exec"}, rows)
            /\ store' = [store EXCEPT ![k] = None]

\* Datastore.GetSize
StoreGetSize(c, k, fault) ==
    /\ spc[c] = "idle"
    /\ Inject(fault)
    /\ fault \in {"none", "exec"}
    /\ UNCHANGED BatchVars
    /\ UNCHANGED store
    /\ IF fault = "exec"
       THEN /\ Return(c, "GetSize", k, None, ErrBackend, None, {"exec"}, 0)
            /\ obs' = [obs EXCEPT ![c] = [NoObs EXCEPT !.size = 0]]
       ELSE IF store[k] = None
       THEN /\ Return(c, "GetSize", k, None, ErrNotFound, None, {"exec"}, 0)
            /\ obs' = [obs EXCEPT ![c] = [NoObs EXCEPT !.size = -1]]
       ELSE /\ Return(c, "GetSize", k, None, OK, None, {"exec"}, 1)
            /\ obs' = [obs EXCEPT ![c] = [NoObs EXCEPT !.size = octet_length(store[k])]]

\* Rows.Close: releases the cursor of rows that are open, does nothing on
\* rows already closed
RowsClose(r) ==
    IF r.cursor = "open" THEN [r EXCEPT !.cursor = "closed", !.closes = @ + 1] ELSE r

\* the rows of a db.Query that returned no error
OpenRows(q, text) ==
    [size |-> 0, q |-> q, text |-> text, entries |-> <<>>, cursor |-> "open", closes |-> 0]

\* log.Fatal: os.Exit(1), no deferred function runs and every caller ends
Fatal == "fatal"
Exited == [c \in Callers |-> "exited"]

\* Datastore.Query of a descriptor without filters and orders: RawQuery, then
\* the loop over no filter and a NaiveOrder with no order, which return the
\* results as they are.  RawQuery reads every row before it returns: on a
\* false rows.Next the rows close themselves, then the deferred rows.Close runs
StoreQuery(c, q, fault) ==
    /\ spc[c] = "idle"
    /\ Inject(fault)
    /\ fault \in {"none", "exec", "scan"}
    /\ UNCHANGED BatchVars
    /\ UNCHANGED store
    /\ LET text == IF q.prefix # "" THEN QueryWithParams(q) ELSE QueryAll
           st == ParseStatement(text)
       IN IF fault = "exec" \/ ~st.ok
          THEN /\ fault # "scan"
               /\ Return(c, "Query", None, None, ErrBackend, None, {"query"}, 0)
               /\ obs' = [obs EXCEPT ![c] = [NoObs EXCEPT !.q = q, !.text = text]]
          ELSE \E rows \in Select(st, store) :
                  IF fault = "scan"
                  THEN /\ rows # <<>>
                       /\ sres' = [sres EXCEPT ![c] =
                              [op |-> "Query", key |-> None, val |-> None, res |-> Fatal,
                               out |-> None, calls |-> {"query"}, rows |-> 1]]
                       /\ spc' = Exited
                       /\ obs' = [obs EXCEPT ![c] = OpenRows(q, text)]
                       /\ UNCHANGED spend
                  ELSE /\ Return(c, "Query", None, None, OK, None, {"query"}, Len(rows))
                       /\ obs' = [obs EXCEPT ![c] =
                              [RowsClose(RowsClose(OpenRows(q, text))) EXCEPT
                                  !.entries = [i \in 1..Len(rows) |->
                                                  [key |-> rows[i], value |-> store[rows[i]]]]]]

\* QueryWithParams called by itself: the statement of any descriptor, the rows
\* handed to the caller still open
StoreQueryWithParams(c, q, fault) ==
    /\ spc[c] = "idle"
    /\ Inject(fault)
    /\ fault \in {"none", "exec"}
    /\ UNCHANGED BatchVars
    /\ UNCHANGED store
    /\ LET text == QueryWithParams(q)
       IN IF fault = "exec" \/ ~ParseStatement(text).ok
          THEN /\ Return(c, "QueryWithParams", None, None, ErrBackend, None, {"query"}, 0)
               /\ obs' = [obs EXCEPT ![c] = [NoObs EXCEPT !.q = q, !.text = text]]
          ELSE /\ Return(c, "QueryWithParams", None, None, OK, None, {"query"}, 0)
               /\ obs' = [obs EXCEPT ![c] = OpenRows(q, text)]

\* ------------------------------------------------------------------ spec
\* one batch at a time, with backend failures and panics
Next ==
    \/ \E b \in {"b1"} : Batch(b)
    \/ \E b \in {"b1"}, k \in Keys, v \in Vals \cup {NilVal}, f \in Faults : BatchPut(b, k, v, f)
    \/ \E b \in {"b1"} : BatchPutInsert(b)
    \/ \E b \in {"b1"}, k \in Keys, f \in Faults : BatchDelete(b, k, f)
    \/ \E b \in {"b1"}, f \in Faults : BatchCommit(b, f)

Spec == Init /\ [][Next]_vars

\* the store-level operations of concurrent callers, with backend failures
NextStore ==
    \/ \E c \in Callers, k \in Keys, v \in Vals \cup {NilVal}, f \in Faults : StorePut(c, k, v, f)
    \/ \E c \in Callers : StorePutInsert(c)
    \/ \E c \in Callers, k \in Keys, f \in Faults : StoreGet(c, k, f)
    \/ \E c \in Callers, k \in Keys, f \in Faults : StoreHas(c, k, f)
    \/ \E c \in Callers, k \in Keys, f \in Faults : StoreDelete(c, k, f)

SpecStore == Init /\ [][NextStore]_vars

\* two batches on one key, concurrently, with backend failures and panics
NextConc ==
    \/ \E b \in Batches : Batch(b)
    \/ \E b \in Batches, v \in {"v1", NilVal}, f \in Faults : BatchPut(b, "a/1", v, f)
    \/ \E b \in Batches : BatchPutInsert(b)
    \/ \E b \in Batches, f \in Faults : BatchDelete(b, "a/1", f)
    \/ \E b \in Batches, f \in Faults : BatchCommit(b, f)

SpecConc == Init /\ [][NextConc]_vars

\* a batch and a caller of the store-level reads, concurrently; Commit may fail
ReadQueries == [prefix : {"", "a"}, limit : {0}, offset : {0}]
NextRead ==
    \/ \E b \in {"b1"} : Batch(b)
    \/ \E b \in {"b1"}, k \in Keys : BatchPut(b, k, "v1", "none")
    \/ \E b \in {"b1"} : BatchPutInsert(b)
    \/ \E b \in {"b1"}, k \in Keys : BatchDelete(b, k, "none")
    \/ \E b \in {"b1"}, f \in {"none", "commit"} : BatchCommit(b, f)
    \/ \E k \in Keys : StoreGet("c1", k, "none")
    \/ \E k \in Keys : StoreHas("c1", k, "none")
    \/ \E k \in Keys : StoreGetSize("c1", k, "none")
    \/ \E q \in ReadQueries : StoreQuery("c1", q, "none")

SpecRead == Init /\ [][NextRead]_vars

\* the tables, descriptors and callers of the queries
MaxLimit == 1
MaxOffset == 1
QKeys == {"a/1", "a/2", "a\\1"}
QVals == {"v1", ""}
Prefixes == {"", "a", "a/", "a\\", "a'", "a_"}
Queries == [prefix : Prefixes, limit : 0..MaxLimit, offset : 0..MaxOffset]

\* a table of any rows
InitQuery ==
    /\ store \in [QKeys -> QVals \cup {None}]
    /\ Fresh

\* GetSize and Query of one caller over a table, with backend failures
NextQuery ==
    \/ \E k \in QKeys, f \in Faults : StoreGetSize("c1", k, f)
    \/ \E q \in Queries, f \in Faults : StoreQuery("c1", q, f)

SpecQuery == InitQuery /\ [][NextQuery]_vars

\* QueryWithParams called by itself on every descriptor, over any table, with
\* backend failures
NextCompose == \E q \in Queries, f \in Faults : StoreQueryWithParams("c1", q, f)

SpecCompose == InitQuery /\ [][NextCompose]_vars

Done == {"committed", "rolledback"}

\* ---------------------------------------------------------------- claims

\* C1 (as claimed): once a Put or Delete of a batch has returned an error, Commit
\* makes none of the batch's operations visible in the table.
C1_BatchAtomicity ==
    \A b \in Batches :
        (last[b].op = "Commit" /\ failed[b]) => last[b].applied = {}

\* C2 (as claimed): a Put or Delete that panics in its statement, the batch
\* holding a transaction, rolls the transaction back before the panic leaves
\* it, and raises the same value.
C2_PanicRollsBack ==
    \A b \in Batches :
        (last[b].res = Panicked /\ "exec" \in last[b].calls)
            => ("rollback" \in last[b].calls /\ last[b].raised = PanicVal)

\* C4 (as claimed): a batch Put of a nil value makes no backend call, whatever
\* the state of the batch.
C4_NilPutNoBackendCall ==
    \A b \in Batches :
        (last[b].op = "Put" /\ last[b].val = NilVal) => last[b].calls = {}

\* C4 (amended): a batch Put of a nil value returns ErrInvalidType and begins,
\* executes and commits nothing; it makes no backend call when b.txn is nil,
\* and its one backend call is the Rollback of b.txn otherwise.
C4_NilPutOnlyRollsBack ==
    \A b \in Batches :
        (last[b].op = "Put" /\ last[b].val = NilVal)
            => /\ last[b].res = ErrInvalidType
               /\ last[b].calls = (IF last[b].txn = "nil" THEN {} ELSE {"rollback"})
               /\ last[b].now = last[b].pre

C4_Witness ==
    \E b \in Batches :
        /\ last[b].op = "Put" /\ last[b].val = NilVal
        /\ last[b].txn = "tx" /\ last[b].st = "open"
        /\ last[b].calls = {"rollback"} /\ txState[b] = "rolledback"

\* C5 (as claimed): after a batch operation has failed, by an error or by a
\* panic, the batch's transaction is not open.
C5_NoDanglingTxn ==
    \A b \in Batches :
        (bpc[b] = "idle" /\ last[b].res # OK) => txState[b] # "open"

\* C6: on a batch whose transaction is committed or rolled back, every Put,
\* Delete and Commit returns an error and leaves the table as it was, and the
\* finished transaction holds no write that could still reach the table.
C6_FinishedBatchRejects ==
    \A b \in Batches :
        /\ (last[b].op # "none" /\ last[b].st \in Done)
               => (last[b].res \in Errors /\ last[b].applied = {} /\ last[b].now = last[b].pre)
        /\ txState[b] \in Done => tw[b] = EmptyTw

C6_Witness ==
    \E b \in Batches :
        /\ last[b].op = "Put" /\ last[b].val \in Vals
        /\ last[b].st = "committed" /\ last[b].res = ErrTxDone

\* C9: Commit on a batch whose b.txn is nil returns nil and makes no backend
\* call.
C9_EmptyBatchCommit ==
    \A b \in Batches :
        (last[b].op = "Commit" /\ last[b].txn = "nil")
            => (last[b].res = OK /\ last[b].calls = {} /\ last[b].applied = {})

C9_Witness ==
    \E b \in Batches :
        last[b].op = "Commit" /\ last[b].txn = "nil" /\ last[b].res = OK /\ btxn[b] = "nil"

\* C8 (as claimed): after a Commit that returned nil, every key a Delete of the
\* batch named has no row, and every other key the batch put while it was
\* absent holds the value put.
C8_CommittedBatchApplied ==
    \A b \in Batches :
        (last[b].op = "Commit" /\ last[b].res = OK /\ last[b].txn = "tx")
            => \A k \in Keys :
                   /\ k \in dels[b] => last[b].now[k] = None
                   /\ (k \notin dels[b] /\ eff[b][k] \in Vals) => last[b].now[k] = eff[b][k]

\* C8 (amended): after a Commit that returned nil, the table holds what the
\* batch's operations that returned nil ask for in their order: no row for a
\* key whose last such operation is a Delete, and for a key put while absent or
\* after its last Delete, the value of the first such Put.
C8_CommittedBatchAppliedInOrder ==
    \A b \in Batches :
        (last[b].op = "Commit" /\ last[b].res = OK /\ last[b].txn = "tx")
            => \A k \in Keys :
                   /\ eff[b][k] = Deleted => last[b].now[k] = None
                   /\ eff[b][k] \in Vals => last[b].now[k] = eff[b][k]
                   /\ eff[b][k] = Untouched => last[b].now[k] = last[b].pre[k]

C8_Witness ==
    \E b \in Batches :
        /\ last[b].op = "Commit" /\ last[b].res = OK /\ last[b].txn = "tx"
        /\ \E k \in Keys : eff[b][k] = Deleted /\ last[b].pre[k] # None
        /\ \E k \in Keys : eff[b][k] \in Vals /\ k \in dels[b] /\ last[b].now[k] = eff[b][k]

\* C3: a store-level Put of a key that has a row, the backend not failing,
\* returns nil and leaves the table as it was (the row keeps its value).
C3_InsertIfAbsent ==
    [][\A c \in Callers, k \in Keys, v \in Vals :
          (StorePut(c, k, v, "none") /\ store[k] # None)
              => /\ spc'[c] = "idle"
                 /\ sres'[c].op = "Put" /\ sres'[c].res = OK
                 /\ store' = store]_vars

C3_Witness ==
    \E c \in Callers :
        /\ spc[c] = "idle" /\ sres[c].op = "Put" /\ sres[c].res = OK /\ sres[c].rows = 0
        /\ sres[c].val \in Vals
        /\ store[sres[c].key] \in Vals \ {sres[c].val}

\* C7 (as claimed): no Put returns an error because the key already has a row,
\* however the Puts of concurrent callers interleave.
C7_FirstWriteWins ==
    \A c \in Callers : sres[c].op = "Put" => sres[c].res # ErrUnique

\* C10: a store-level Delete, the backend not failing, returns ErrNotFound and
\* leaves the table as it was when the key has no row, and returns nil and
\* removes the row (and nothing else) when it has one; Has of a key without a
\* row returns false and no error.
C10_DeleteNotFoundDuality ==
    [][\A c \in Callers, k \in Keys :
          /\ StoreDelete(c, k, "none")
                => /\ sres'[c].op = "Delete"
                   /\ IF store[k] = None
                      THEN sres'[c].res = ErrNotFound /\ store' = store
                      ELSE sres'[c].res = OK /\ store' = [store EXCEPT ![k] = None]
          /\ (StoreHas(c, k, "none") /\ store[k] = None)
                => /\ sres'[c].op = "Has" /\ sres'[c].res = OK
                   /\ sres'[c].out = "false" /\ store' = store]_vars

C10_Witness ==
    \E c, d \in Callers :
        /\ sres[c].op = "Delete" /\ sres[c].res = ErrNotFound
        /\ sres[d].op = "Has" /\ sres[d].res = OK /\ sres[d].out = "false"
        /\ store[sres[c].key] = None

\* C11: a batch Delete of a key that has no row (in the table as the batch's
\* transaction sees it), on a batch whose transaction is not finished and with
\* the backend not failing, returns nil, makes no Rollback, and leaves the
\* transaction open with the writes it held, so that they can still be
\* committed.
C11_BatchDeleteOfAbsentKey ==
    [][\A b \in Batches, k \in Keys :
          (BatchDelete(b, k, "none") /\ TxView(b, k) = None /\ txState[b] \notin Done)
              => /\ last'[b].op = "Delete" /\ last'[b].res = OK
                 /\ "rollback" \notin last'[b].calls
                 /\ txState'[b] = "open"
                 /\ tw'[b] = tw[b]
                 /\ store' = store]_vars

C11_Witness ==
    \E b \in Batches :
        /\ last[b].op = "Delete" /\ last[b].res = OK
        /\ store[last[b].key] = None /\ tw[b][last[b].key] = Untouched
        /\ txState[b] = "open"
        /\ \E k \in Keys \ {last[b].key} : tw[b][k] \in Vals

\* the rows of the table, and those whose key starts with p
Present == {k \in DOMAIN store : store[k] # None}
WithPrefix(p) == {k \in Present : HasPrefix(k, p)}
Entry(k) == [key |-> k, value |-> store[k]]
EntryKeys(es) == [i \in 1..Len(es) |-> es[i].key]
Contains(s, c) == IndexOf(s, c) # 0

\* a prefix without the wildcards of LIKE
WildcardFree(p) == ~Contains(p, "%") /\ ~Contains(p, "_")
\* a prefix without any character LIKE or the string literal gives a meaning to
Plain(p) == WildcardFree(p) /\ ~Contains(p, "\\") /\ ~Contains(p, "'")

\* C12 (as claimed): a Query without prefix that returned no error gives at most
\* limit entries when the limit is not zero, and leaves out offset rows of the
\* table when the offset is not zero.
C12_LimitWithoutPrefix ==
    \A c \in Callers :
        (sres[c].op = "Query" /\ sres[c].res = OK /\ obs[c].q.prefix = "")
            => /\ obs[c].q.limit # 0 => Len(obs[c].entries) <= obs[c].q.limit
               /\ obs[c].q.offset # 0 =>
                      Len(obs[c].entries) + obs[c].q.offset <= Cardinality(Present)
                      \/ obs[c].entries = <<>>

\* a Query of caller c has returned and no backend failure was injected
QueryRan(c) == sres[c].op = "Query" /\ faults = 0

\* C13 (as claimed): a Query with a non-empty prefix without wildcards, no limit
\* and no offset, the backend not failing, returns no error and exactly one
\* entry, with the stored value, for each key that starts with the prefix.
C13_PrefixQueryExact ==
    \A c \in Callers :
        LET q == obs[c].q IN
        (QueryRan(c) /\ q.prefix # "" /\ WildcardFree(q.prefix)
         /\ q.limit = 0 /\ q.offset = 0)
            => /\ sres[c].res = OK
               /\ Len(obs[c].entries) = Cardinality(WithPrefix(q.prefix))
               /\ {obs[c].entries[i] : i \in 1..Len(obs[c].entries)}
                      = {Entry(k) : k \in WithPrefix(q.prefix)}

C15_CursorReleasedOnce ==
    \A c \in Callers :
        (sres[c].op = "Query" /\ obs[c].cursor # "none")
            => (obs[c].cursor = "closed" /\ obs[c].closes = 1)

\* C16: a store-level Put of a nil value returns ErrInvalidType, makes no
\* backend call and leaves the table as it was.
C16_StoreNilPut ==
    [][\A c \in Callers :
          (sres'[c] # sres[c] /\ sres'[c].op = "Put" /\ sres'[c].val = NilVal)
              => /\ spc'[c] = "idle"
                 /\ sres'[c].res = ErrInvalidType
                 /\ sres'[c].calls = {}
                 /\ faults' = faults
                 /\ store' = store]_vars

C16_Witness ==
    \E c \in Callers :
        /\ spc[c] = "idle" /\ sres[c].op = "Put" /\ sres[c].val = NilVal
        /\ sres[c].res = ErrInvalidType /\ sres[c].calls = {}
        /\ \E k \in Keys : store[k] # None

\* C17: GetSize, the backend not failing, returns the length of the value and
\* no error for a key that has a row, and -1 with ErrNotFound for a key that
\* has none.
C17_GetSize ==
    [][\A c \in Callers, k \in QKeys :
          StoreGetSize(c, k, "none")
              => IF store[k] # None
                 THEN sres'[c].res = OK /\ obs'[c].size = Len(store[k])
                 ELSE sres'[c].res = ErrNotFound /\ obs'[c].size = -1]_vars

C17_Witness ==
    \E c \in Callers :
        /\ sres[c].op = "GetSize" /\ sres[c].res = OK
        /\ store[sres[c].key] = "v1" /\ obs[c].size = 2

\* C19: the text QueryWithParams composes is the select-all statement, then
\* the prefix clause iff the prefix is not empty, then the limit clause iff the
\* limit is not zero, then the offset clause iff the offset is not zero.
C19_CompositionOrder ==
    \A c \in Callers :
        sres[c].op = "QueryWithParams"
            => LET q == obs[c].q IN
               obs[c].text =
                   "SELECT key, data FROM kv"
                   \o (IF q.prefix # ""
                       THEN " WHERE key LIKE '" \o q.prefix \o "%' ORDER BY key" ELSE "")
                   \o (IF q.limit # 0 THEN " LIMIT " \o Itoa(q.limit) ELSE "")
                   \o (IF q.offset # 0 THEN " OFFSET " \o Itoa(q.offset) ELSE "")

C19_Witness ==
    \E c \in Callers :
        /\ sres[c].op = "QueryWithParams" /\ sres[c].res = OK
        /\ obs[c].q = [prefix |-> "a/", limit |-> 1, offset |-> 1]
        /\ obs[c].text =
               "SELECT key, data FROM kv WHERE key LIKE 'a/%' ORDER BY key LIMIT 1 OFFSET 1"

\* an operation of batch b takes a step
StepOf(b) == last'[b] # last[b] \/ bpc'[b] # bpc[b]

\* C18: Batch() leaves b.txn nil and begins nothing; a Put of a nil value
\* begins nothing; a Put or Delete that finds b.txn nil calls Begin, and no
\* operation that finds b.txn set does; b.txn is set exactly when a Begin of the
\* batch has succeeded and is never replaced or cleared afterwards, a finished
\* transaction is not followed by another one, every statement of the batch is
\* executed with b.txn set, and a step of one batch leaves the transaction of
\* every other batch as it was.
C18_LazySingleTransaction ==
    [][\A b \in Batches :
          /\ Batch(b) => (btxn'[b] = "nil" /\ txState'[b] = "none" /\ last'[b].calls = {})
          /\ (StepOf(b) /\ ~Batch(b)) =>
                /\ "begin" \in last'[b].calls => (last'[b].txn = "nil" /\ last'[b].st = "none")
                /\ last'[b].val = NilVal => "begin" \notin last'[b].calls
                /\ (last'[b].op \in {"Put", "Delete"} /\ last'[b].val # NilVal
                    /\ last'[b].txn = "nil") => "begin" \in last'[b].calls
                /\ (btxn'[b] = "nil") = (txState'[b] = "none")
                /\ btxn[b] # "nil" => btxn'[b] = btxn[b]
                /\ txState[b] \in Done => txState'[b] = txState[b]
                /\ "exec" \in last'[b].calls => btxn'[b] # "nil"
                /\ \A o \in Batches \ {b} :
                       btxn'[o] = btxn[o] /\ txState'[o] = txState[o] /\ tw'[o] = tw[o]]_vars

\* both batches hold an open transaction with a write of their own, each begun
\* by the batch's first Put
C18_Witness ==
    /\ \A b \in Batches :
          /\ btxn[b] = "tx" /\ txState[b] = "open" /\ bpc[b] = "idle"
          /\ last[b].op = "Delete" /\ last[b].txn = "tx" /\ "begin" \notin last[b].calls
    /\ \E b \in Batches : \E k \in Keys : tw[b][k] \in Vals

\* a store-level read of caller c returns
Reads(c) == sres'[c] # sres[c] \/ obs'[c] # obs[c]

\* C20: the table changes only in a step in which a Commit returns nil, and
\* then every key the batch's transaction wrote changes at once: a key it
\* deleted has no row, a key it put holds the value; Put, Delete and a Commit
\* that fails leave the table as it was.  Get, Has, GetSize and Query return
\* what the table holds, whatever the open transaction has written.
C20_UncommittedInvisible ==
    [][/\ store' # store =>
              \E b \in Batches :
                  /\ last'[b].op = "Commit" /\ last'[b].res = OK /\ last'[b] # last[b]
                  /\ \A k \in Keys :
                         store'[k] = (IF tw[b][k] = Untouched THEN store[k]
                                      ELSE IF tw[b][k] = Deleted THEN None
                                      ELSE tw[b][k])
       /\ \A c \in Callers :
              Reads(c) =>
                  LET k == sres'[c].key
                      op == sres'[c].op
                  IN /\ store' = store
                     /\ op = "Get" => IF store[k] = None
                                      THEN sres'[c].res = ErrNotFound
                                      ELSE sres'[c].res = OK /\ sres'[c].out = store[k]
                     /\ op = "Has" => sres'[c].out = (IF store[k] = None THEN "false" ELSE "true")
                     /\ op = "GetSize" => obs'[c].size = (IF store[k] = None THEN -1
                                                          ELSE Len(store[k]))
                     /\ op = "Query" =>
                            {obs'[c].entries[i] : i \in 1..Len(obs'[c].entries)}
                                = {Entry(j) : j \in WithPrefix(obs'[c].q.prefix)}]_vars

\* the batch's open transaction has put one key and deleted the other, and
\* the caller's Query returned the table's one row, that of the deleted key
C20_Witness ==
    \E b \in Batches, c \in Callers :
        /\ txState[b] = "open" /\ bpc[b] = "idle"
        /\ \E k \in Keys : tw[b][k] \in Vals /\ store[k] = None
        /\ \E k \in Keys :
              /\ tw[b][k] = Deleted /\ store[k] # None
              /\ sres[c].op = "Query" /\ sres[c].res = OK
              /\ EntryKeys(obs[c].entries) = <<k>>

====
